---- MODULE Spec2Model ----
(***************************************************************************)
(* State-machine model of src/main.py: the anime-tracking backend.         *)
(*                                                                         *)
(* The store is one SQLite file.  Every handler but one talks to it        *)
(* through the process-wide connection `conn` (main.py:50), opened with    *)
(* Python's default transaction control: an implicit BEGIN precedes the    *)
(* first INSERT/UPDATE/DELETE, and the transaction stays open until        *)
(* conn.commit() or conn.rollback() is called.  update_watch_progress      *)
(* opens its own connection to the same file (main.py:401).                *)
(*                                                                         *)
(* Requests are handled one at a time: one action is one whole request.    *)
(***************************************************************************)
EXTENDS Integers, Sequences, FiniteSets, TLC

(***************************************************************************)
(* Bounds of the model.                                                    *)
(***************************************************************************)
MaxUsers == 1          \* users that register
MaxAnime == 2          \* anime identifiers 1..MaxAnime
MaxEpisodes == 1       \* episodes_watched / total_episodes range over 0..MaxEpisodes
MaxClock == 1          \* CURRENT_TIMESTAMP ranges over 0..MaxClock (seconds)
MaxExp == 300          \* no award is modelled once exp would exceed MaxExp
MaxAchievements == 2   \* rows of the achievements catalog

(***************************************************************************)
(* Values.                                                                 *)
(***************************************************************************)
NoneStr == "<None>"    \* Python None / SQL NULL in a text position
NoneInt == -1          \* Python None / SQL NULL in an integer position
GhostUser == 0         \* a user_id that is never registered

PLANNED == "planned"
WATCHING == "watching"
COMPLETED == "completed"
DROPPED == "dropped"
Status == {PLANNED, WATCHING, COMPLETED, DROPPED}

UserIds == 1..MaxUsers
AnimeIds == 1..MaxAnime
Episodes == 0..MaxEpisodes

VARIABLES
  db,         \* the committed contents of the database file, one sequence of rows per table
  conn,       \* the shared connection: in_transaction, and the tables as it sees them
  now,        \* the value of CURRENT_TIMESTAMP
  request,    \* the request handled by the last step
  response,   \* the response to that request
  path,       \* the branch of the handler that produced it
  before,     \* the level and exp of the request's user when the request arrived
  frame       \* the local variables of a handler that runs step by step

vars == <<db, conn, now, request, response, path, before, frame>>

(***************************************************************************)
(* Tables (init_db).  A table is the sequence of its rows in rowid order.  *)
(***************************************************************************)
EmptyTables ==
  [ users |-> << >>,              \* [user_id, email, password, level, exp]
    watch_progress |-> << >>,     \* [user_id, anime_id, title, image_url, status, episodes_watched, total_episodes]
    recent |-> << >>,             \* [user_id, anime_id, title, image_url, viewed_at]
    favorites |-> << >>,          \* [user_id, anime_id, title, image_url, created_at]
    achievements |-> << >>,       \* [id, exp_reward]
    user_achievements |-> << >>,  \* [user_id, achievement_id]
    roles |-> << >>,              \* [user_id, role]
    administrators |-> << >> ]    \* [user_id]

NoRequest ==
  [ op |-> "none", user_id |-> GhostUser, anime_id |-> 0, title |-> NoneStr,
    image_url |-> NoneStr, status |-> NoneStr, episodes_watched |-> 0,
    total_episodes |-> NoneInt, action |-> NoneStr, achievement_id |-> 0,
    email |-> NoneStr, password |-> NoneStr, exp_reward |-> 0,
    role |-> NoneStr, setupKey |-> NoneStr ]

NoResponse ==
  [ code |-> 0, status |-> NoneStr, user_id |-> GhostUser, exp_gained |-> 0,
    level |-> 0, exp |-> 0, count |-> 0, achievement_id |-> 0,
    favorites |-> << >>, role |-> NoneStr, recent |-> << >> ]

Ok == [NoResponse EXCEPT !.code = 200]
HTTPException(status_code) == [NoResponse EXCEPT !.code = status_code]

(***************************************************************************)
(* SQL helpers.                                                            *)
(***************************************************************************)
\* indices of the rows of table t for (user_id, anime_id)
RowsOf(t, u, a) == {i \in 1..Len(t) : t[i].user_id = u /\ t[i].anime_id = a}

\* cursor.fetchone() of SELECT ... WHERE user_id = ? AND anime_id = ?: index of the first row, 0 if none
FetchOne(t, u, a) ==
  IF RowsOf(t, u, a) = {} THEN 0
  ELSE CHOOSE i \in RowsOf(t, u, a) : \A j \in RowsOf(t, u, a) : i <= j

UserRows(t, u) == {i \in 1..Len(t) : t[i].user_id = u}
UserExists(t, u) == UserRows(t.users, u) # {}

\* SELECT level, exp FROM users WHERE user_id = ?  (zeros when there is no such user)
Stats(t, u) ==
  IF UserRows(t.users, u) = {} THEN [level |-> 0, exp |-> 0]
  ELSE LET i == CHOOSE i \in UserRows(t.users, u) : TRUE
       IN [level |-> t.users[i].level, exp |-> t.users[i].exp]

\* DELETE FROM t WHERE user_id = ? AND anime_id = ?
RECURSIVE DeleteRows(_, _, _)
DeleteRows(t, u, a) ==
  IF t = << >> THEN << >>
  ELSE IF Head(t).user_id = u /\ Head(t).anime_id = a
       THEN DeleteRows(Tail(t), u, a)
       ELSE <<Head(t)>> \o DeleteRows(Tail(t), u, a)

\* COALESCE(x, y)
Coalesce(x, y) == IF x # NoneStr THEN x ELSE y

(***************************************************************************)
(* Transaction control of the shared connection.                           *)
(***************************************************************************)
\* a data-modifying statement on the shared cursor that succeeded with result tables v
Execute(v) == [in_transaction |-> TRUE, view |-> v]
\* a data-modifying statement that raised: the implicit BEGIN stays, the statement's changes do not
ExecuteFailed == [in_transaction |-> TRUE, view |-> conn.view]
\* the connection after conn.commit() / conn.rollback(), the file holding tables d
Idle(d) == [in_transaction |-> FALSE, view |-> d]

\* no handler is between two of its steps
NoFrame ==
  [pc |-> "idle", user_id |-> GhostUser, new_level |-> 0, new_exp |-> 0,
   next_level_exp |-> 0]

Init ==
  /\ db = EmptyTables
  /\ conn = Idle(EmptyTables)
  /\ now = 0
  /\ request = NoRequest
  /\ response = NoResponse
  /\ path = "init"
  /\ before = [level |-> 0, exp |-> 0]
  /\ frame = NoFrame

\* time passes between two requests
Tick ==
  /\ now < MaxClock
  /\ now' = now + 1
  /\ UNCHANGED <<db, conn, request, response, path, before, frame>>

(***************************************************************************)
(* POST /register                                                          *)
(***************************************************************************)
\* mutant: the e-mail check finds nothing
EmailTaken_Never(t, email) == FALSE

\* SELECT 1 FROM users WHERE email = ?; fetchone()
EmailTaken(t, email) == \E i \in 1..Len(t.users) : t.users[i].email = email

register_user(user_id, email, password) ==
  /\ ~UserExists(db, user_id) /\ ~UserExists(conn.view, user_id)   \* uuid4 is fresh
  /\ UNCHANGED frame
  /\ before' = Stats(db, user_id)
  /\ request' = [NoRequest EXCEPT !.op = "register_user", !.user_id = user_id,
                                  !.email = email, !.password = password]
  /\ IF EmailTaken(conn.view, email)
     THEN /\ response' = HTTPException(400)
          /\ path' = "email_taken"
          /\ UNCHANGED <<db, conn>>
     ELSE LET row == [user_id |-> user_id, email |-> email, password |-> password,
                      level |-> 1, exp |-> 0]
              v == [conn.view EXCEPT !.users = Append(@, row),
                                     !.roles = Append(@, [user_id |-> user_id,
                                                          role |-> "user"])]
          IN /\ db' = v
             /\ conn' = Idle(v)
             /\ response' = [Ok EXCEPT !.user_id = user_id, !.level = 1, !.exp = 0,
                                       !.role = "user"]
             /\ path' = "registered"
  /\ UNCHANGED now

(***************************************************************************)
(* POST /watch-progress (its own connection to the same file)              *)
(***************************************************************************)
\* the status the handler stores and returns
EffectiveStatus(status, episodes_watched, total_episodes) ==
  IF total_episodes # NoneInt /\ total_episodes # 0
     /\ total_episodes > 0 /\ episodes_watched >= total_episodes
  THEN COMPLETED
  ELSE status

\* the first operand of the cascade condition: a transition to completed
BecameCompleted(old_status, status) == old_status # COMPLETED /\ status = COMPLETED

\* Python evaluates `episodes_watched > old_episodes` only when the first operand is
\* false, and the comparison of an int with None raises TypeError
CascadeRaises(old_status, status, episodes_watched, old_episodes) ==
  ~BecameCompleted(old_status, status) /\ old_episodes = NoneInt

\* mutant: the two conditions joined by "and" instead of "or"
CascadeFires_BothNeeded(old_status, status, episodes_watched, old_episodes) ==
  /\ BecameCompleted(old_status, status)
  /\ old_episodes # NoneInt /\ episodes_watched > old_episodes

\* mutant: ">=" instead of ">" on the episode counts
CascadeFires_NotLess(old_status, status, episodes_watched, old_episodes) ==
  \/ BecameCompleted(old_status, status)
  \/ old_episodes # NoneInt /\ episodes_watched >= old_episodes

CascadeFires(old_status, status, episodes_watched, old_episodes) ==
  \/ BecameCompleted(old_status, status)
  \/ old_episodes # NoneInt /\ episodes_watched > old_episodes

\* INSERT INTO watch_progress ... ON CONFLICT(user_id, anime_id) DO UPDATE SET ...
UpsertProgress(t, u, a, episodes_watched, total_episodes, status, title, image_url) ==
  IF RowsOf(t, u, a) = {}
  THEN Append(t, [user_id |-> u, anime_id |-> a, title |-> title, image_url |-> image_url,
                  status |-> status, episodes_watched |-> episodes_watched,
                  total_episodes |-> total_episodes])
  ELSE [i \in 1..Len(t) |->
          IF i = FetchOne(t, u, a)
          THEN [t[i] EXCEPT !.episodes_watched = episodes_watched,
                            !.total_episodes = total_episodes,
                            !.status = status,
                            !.title = Coalesce(title, @),
                            !.image_url = Coalesce(image_url, @)]
          ELSE t[i]]

\* INSERT INTO recent ... ON CONFLICT(user_id, anime_id) DO UPDATE SET viewed_at = CURRENT_TIMESTAMP
UpsertRecent(t, u, a, title, image_url, ts) ==
  IF RowsOf(t, u, a) = {}
  THEN Append(t, [user_id |-> u, anime_id |-> a, title |-> title, image_url |-> image_url,
                  viewed_at |-> ts])
  ELSE [i \in 1..Len(t) |->
          IF i = FetchOne(t, u, a) THEN [t[i] EXCEPT !.viewed_at = ts] ELSE t[i]]

\* mutant: a CASE with a second branch that takes a level back when exp falls
\* below the threshold of the level before
SingleStep_BothWays(row, award) ==
  [row EXCEPT !.exp = row.exp + award,
              !.level = IF row.exp + award >= row.level * 1000 THEN row.level + 1
                        ELSE IF row.exp + award < (row.level - 1) * 1000 /\ row.level > 1
                        THEN row.level - 1
                        ELSE row.level]

\* mutant: ">" in place of ">=" in the CASE
SingleStep_Strict(row, award) ==
  [row EXCEPT !.exp = row.exp + award,
              !.level = IF row.exp + award > row.level * 1000 THEN row.level + 1
                        ELSE row.level]

\* SET exp = exp + ?, level = CASE WHEN exp + ? >= level * 1000 THEN level + 1 ELSE level END
SingleStep(row, award) ==
  [row EXCEPT !.exp = row.exp + award,
              !.level = IF row.exp + award >= row.level * 1000 THEN row.level + 1
                        ELSE row.level]

\* UPDATE users SET <single step> WHERE user_id = ?
AwardExp(users, u, award) ==
  [i \in 1..Len(users) |-> IF users[i].user_id = u THEN SingleStep(users[i], award)
                           ELSE users[i]]

\* the award of the progress cascade
ProgressAward == 100

\* the tables after the upsert and the cascade
ProgressTables(t, p, title, image_url, status, fires) ==
  LET wp == UpsertProgress(t.watch_progress, p.user_id, p.anime_id, p.episodes_watched,
                           p.total_episodes, status, title, image_url)
  IN IF fires
     THEN [t EXCEPT !.watch_progress = wp,
                    !.recent = UpsertRecent(@, p.user_id, p.anime_id, title, image_url, now),
                    !.users = AwardExp(@, p.user_id, ProgressAward)]
     ELSE [t EXCEPT !.watch_progress = wp]

\* except sqlite3.Error / except Exception: whatever was raised in the body, an
\* HTTPException included, leaves as a 500
update_watch_progress_except(raised) == HTTPException(500)

\* the exp of user u in tables t (0 when there is no such user)
ExpOf(t, u) == IF UserRows(t.users, u) = {} THEN 0
               ELSE t.users[CHOOSE i \in UserRows(t.users, u) : TRUE].exp

update_watch_progress(p) ==
  LET existing == FetchOne(db.watch_progress, p.user_id, p.anime_id)
      title == IF p.title # NoneStr THEN p.title
               ELSE IF existing # 0 THEN db.watch_progress[existing].title ELSE NoneStr
      image_url == IF p.image_url # NoneStr THEN p.image_url
                   ELSE IF existing # 0 THEN db.watch_progress[existing].image_url ELSE NoneStr
      old_status == IF existing # 0 THEN db.watch_progress[existing].status ELSE NoneStr
      old_episodes == IF existing # 0 THEN db.watch_progress[existing].episodes_watched ELSE 0
      status == EffectiveStatus(p.status, p.episodes_watched, p.total_episodes)
      fires == CascadeFires(old_status, status, p.episodes_watched, old_episodes)
  IN /\ UNCHANGED frame
     /\ before' = Stats(db, p.user_id)
     /\ request' = [NoRequest EXCEPT !.op = "update_watch_progress", !.user_id = p.user_id,
                       !.anime_id = p.anime_id, !.title = p.title, !.image_url = p.image_url,
                       !.status = p.status, !.episodes_watched = p.episodes_watched,
                       !.total_episodes = p.total_episodes]
     /\ UNCHANGED now
     /\ IF ~UserExists(db, p.user_id)
        THEN \* raise HTTPException(404) inside the try
             /\ response' = update_watch_progress_except(404)
             /\ path' = "user_not_found"
             /\ UNCHANGED <<db, conn>>
        ELSE IF conn.in_transaction
        THEN \* the shared connection holds the write lock: "database is locked"
             /\ response' = update_watch_progress_except(500)
             /\ path' = "database_locked"
             /\ UNCHANGED <<db, conn>>
        ELSE IF CascadeRaises(old_status, status, p.episodes_watched, old_episodes)
        THEN \* TypeError after the upsert: the with block rolls the upsert back
             /\ response' = update_watch_progress_except(500)
             /\ path' = "type_error"
             /\ UNCHANGED <<db, conn>>
        ELSE /\ db' = ProgressTables(db, p, title, image_url, status, fires)
             /\ conn' = Idle(db')
             /\ response' = [Ok EXCEPT !.status = status]
             /\ path' = IF fires THEN "cascade" ELSE "no_cascade"

(***************************************************************************)
(* POST /watch-status/{user_id} and DELETE /watch-status/{user_id}/{anime} *)
(***************************************************************************)
Falsy(s) == s = NoneStr \/ s = ""

\* INSERT INTO watch_progress ... ON CONFLICT(user_id, anime_id) DO UPDATE SET ...
UpsertStatus(t, u, a, title, image_url, status, episodes) ==
  IF RowsOf(t, u, a) = {}
  THEN Append(t, [user_id |-> u, anime_id |-> a, title |-> title,
                  image_url |-> IF Falsy(image_url) THEN "/placeholder.svg" ELSE image_url,
                  status |-> status, episodes_watched |-> episodes,
                  total_episodes |-> 0])
  ELSE [i \in 1..Len(t) |->
          IF i = FetchOne(t, u, a)
          THEN [t[i] EXCEPT !.status = status, !.episodes_watched = episodes,
                            !.title = title, !.image_url = Coalesce(image_url, @)]
          ELSE t[i]]

update_watch_status(u, a, status, episodes, title, image_url) ==
  /\ UNCHANGED frame
  /\ before' = Stats(db, u)
  /\ request' = [NoRequest EXCEPT !.op = "update_watch_status", !.user_id = u, !.anime_id = a,
                    !.status = status, !.episodes_watched = episodes, !.title = title,
                    !.image_url = image_url]
  /\ UNCHANGED now
  /\ IF Falsy(title) \/ Falsy(image_url)
     THEN \* raise HTTPException(400), caught by except Exception
          /\ response' = HTTPException(500)
          /\ path' = "title_required"
          /\ UNCHANGED <<db, conn>>
     ELSE LET v == [conn.view EXCEPT !.watch_progress =
                       UpsertStatus(@, u, a, title, image_url, status, episodes)]
          IN /\ db' = v
             /\ conn' = Idle(v)
             /\ response' = Ok
             /\ path' = "committed"

delete_watch_status(u, a) ==
  LET v == [conn.view EXCEPT !.watch_progress = DeleteRows(@, u, a)]
  IN /\ UNCHANGED frame
     /\ before' = Stats(db, u)
     /\ request' = [NoRequest EXCEPT !.op = "delete_watch_status", !.user_id = u, !.anime_id = a]
     /\ db' = v
     /\ conn' = Idle(v)
     /\ response' = Ok
     /\ path' = "committed"
     /\ UNCHANGED now

(***************************************************************************)
(* POST /user/{user_id}: the INSERT names no password, a NOT NULL column,  *)
(* so the statement raises IntegrityError whether or not the user exists;  *)
(* the handler answers 500 and neither commits nor rolls back.             *)
(***************************************************************************)
update_user(u) ==
  /\ UNCHANGED frame
  /\ before' = Stats(db, u)
  /\ request' = [NoRequest EXCEPT !.op = "update_user", !.user_id = u]
  /\ conn' = ExecuteFailed
  /\ response' = HTTPException(500)
  /\ path' = "integrity_error"
  /\ UNCHANGED <<db, now>>

(***************************************************************************)
(* POST /recent (the shared connection, in a `with conn:` block)           *)
(***************************************************************************)
\* mutant: the insert finds no conflict and adds a row
UpsertRecentAnime_Append(t, u, a, title, image_url, ts) ==
  Append(t, [user_id |-> u, anime_id |-> a, title |-> title, image_url |-> image_url,
             viewed_at |-> ts])

\* INSERT INTO recent ... ON CONFLICT(user_id, anime_id) DO UPDATE SET title = ?,
\* image_url = ?, viewed_at = CURRENT_TIMESTAMP
UpsertRecentAnime(t, u, a, title, image_url, ts) ==
  IF RowsOf(t, u, a) = {}
  THEN Append(t, [user_id |-> u, anime_id |-> a, title |-> title, image_url |-> image_url,
                  viewed_at |-> ts])
  ELSE [i \in 1..Len(t) |->
          IF i = FetchOne(t, u, a)
          THEN [t[i] EXCEPT !.title = title, !.image_url = image_url, !.viewed_at = ts]
          ELSE t[i]]

add_recent_anime(u, a, title, image_url) ==
  /\ UNCHANGED frame
  /\ before' = Stats(db, u)
  /\ request' = [NoRequest EXCEPT !.op = "add_recent_anime", !.user_id = u, !.anime_id = a,
                                  !.title = title, !.image_url = image_url]
  /\ UNCHANGED now
  /\ IF ~UserExists(conn.view, u)
     THEN \* HTTPException(404) leaves the with block, which rolls back; `except
          \* Exception` turns it into a 500
          /\ conn' = Idle(db)
          /\ response' = HTTPException(500)
          /\ path' = "user_not_found"
          /\ UNCHANGED db
     ELSE \* the with block commits
          LET v == [conn.view EXCEPT !.recent = UpsertRecentAnime(@, u, a, title, image_url, now)]
          IN /\ db' = v
             /\ conn' = Idle(v)
             /\ response' = Ok
             /\ path' = "committed"

(***************************************************************************)
(* POST /favorites/{user_id} and POST /favorites/{user_id}/manage          *)
(***************************************************************************)
\* UPDATE favorites SET title = ?, image_url = ?, created_at = CURRENT_TIMESTAMP WHERE ...
UpdateFavorite(t, u, a, title, image_url, ts) ==
  [i \in 1..Len(t) |->
     IF t[i].user_id = u /\ t[i].anime_id = a
     THEN [t[i] EXCEPT !.title = title, !.image_url = image_url, !.created_at = ts]
     ELSE t[i]]

\* INSERT INTO favorites (user_id, anime_id, title, image_url) VALUES (?, ?, ?, ?)
InsertFavorite(t, u, a, title, image_url, ts) ==
  Append(t, [user_id |-> u, anime_id |-> a, title |-> title, image_url |-> image_url,
             created_at |-> ts])

\* SELECT 1 FROM favorites WHERE user_id = ? AND anime_id = ?; fetchone() is not None
FavoriteExists(t, u, a) == RowsOf(t, u, a) # {}

\* cursor.rowcount of DELETE FROM favorites WHERE user_id = ? AND anime_id = ?
DeleteCount(t, u, a) == Cardinality(RowsOf(t, u, a))

\* mutant: the row count of the DELETE is not checked
NothingRemoved_Never(rowcount) == FALSE

\* the check that turns a remove of no row into a 404
NothingRemoved(rowcount) == rowcount = 0

\* SELECT anime_id, title, image_url, created_at FROM favorites WHERE user_id = ?
\* ORDER BY created_at DESC, over the rows S of table t.  created_at holds whole
\* seconds; rows of the same second come in the order of the scan of the index
\* on (user_id, anime_id), that is by anime_id.
RECURSIVE OrderByCreatedAtDesc(_, _)
OrderByCreatedAtDesc(t, S) ==
  IF S = {} THEN << >>
  ELSE LET i == CHOOSE i \in S : \A j \in S :
                   \/ t[i].created_at > t[j].created_at
                   \/ t[i].created_at = t[j].created_at /\ t[i].anime_id <= t[j].anime_id
       IN <<[id |-> t[i].anime_id, title |-> t[i].title,
             image |-> IF Falsy(t[i].image_url) THEN "/placeholder.svg" ELSE t[i].image_url,
             addedAt |-> t[i].created_at]>>
          \o OrderByCreatedAtDesc(t, S \ {i})

\* the list of favorites the toggles return
FavoritesList(t, u) == OrderByCreatedAtDesc(t.favorites, UserRows(t.favorites, u))

\* len(favorites)
FavoritesCount(t, u) == Len(FavoritesList(t, u))

\* the tables after the statements of an add or a remove
ToggleTables(t, u, data) ==
  IF data.action = "add"
  THEN IF FavoriteExists(t.favorites, u, data.animeId)
       THEN [t EXCEPT !.favorites = UpdateFavorite(@, u, data.animeId, data.title,
                                                  data.image_url, now)]
       ELSE [t EXCEPT !.favorites = InsertFavorite(@, u, data.animeId, data.title,
                                                  data.image_url, now)]
  ELSE [t EXCEPT !.favorites = DeleteRows(@, u, data.animeId)]

FavoriteRequest(op, u, data) ==
  [NoRequest EXCEPT !.op = op, !.user_id = u, !.anime_id = data.animeId,
                    !.action = data.action, !.title = data.title,
                    !.image_url = data.image_url]

\* what the handler answers and leaves behind, from the state it starts in
update_favorites_result(u, data) ==
  IF ~UserExists(conn.view, u)
  THEN [response |-> HTTPException(404), path |-> "user_not_found", db |-> db, conn |-> conn]
  ELSE IF conn.in_transaction
  THEN \* conn.execute("BEGIN TRANSACTION") raises OperationalError in the outer try
       [response |-> HTTPException(500), path |-> "begin_failed", db |-> db, conn |-> conn]
  ELSE IF data.action = "add" /\ (Falsy(data.title) \/ data.animeId = 0)
  THEN \* HTTPException(400) in the inner try: rollback and re-raise
       [response |-> HTTPException(400), path |-> "title_required", db |-> db,
        conn |-> Idle(db)]
  ELSE IF data.action = "remove"
          /\ NothingRemoved(DeleteCount(conn.view.favorites, u, data.animeId))
  THEN \* cursor.rowcount == 0: HTTPException(404), rollback and re-raise
       [response |-> HTTPException(404), path |-> "favorite_not_found", db |-> db,
        conn |-> Idle(db)]
  ELSE LET v == ToggleTables(conn.view, u, data)
       IN [response |-> [Ok EXCEPT !.status = "success", !.count = FavoritesCount(v, u),
                                   !.favorites = FavoritesList(v, u)],
           path |-> "committed", db |-> v, conn |-> Idle(v)]

update_favorites(u, data) ==
  LET result == update_favorites_result(u, data)
  IN /\ UNCHANGED frame
     /\ before' = Stats(db, u)
     /\ request' = FavoriteRequest("update_favorites", u, data)
     /\ UNCHANGED now
     /\ response' = result.response
     /\ path' = result.path
     /\ db' = result.db
     /\ conn' = result.conn

\* result_status of the remove branch: cursor.rowcount > 0
Removed(rowcount) == rowcount > 0

manage_favorites_result(u, data) ==
  IF ~UserExists(conn.view, u)
  THEN [response |-> HTTPException(404), path |-> "user_not_found", db |-> db, conn |-> conn]
  ELSE IF conn.in_transaction
  THEN \* conn.execute("BEGIN TRANSACTION") raises OperationalError in the outer try
       [response |-> HTTPException(500), path |-> "begin_failed", db |-> db, conn |-> conn]
  ELSE IF data.action = "add" /\ (Falsy(data.title) \/ data.animeId = 0)
  THEN [response |-> HTTPException(400), path |-> "title_required", db |-> db,
        conn |-> Idle(db)]
  ELSE LET result_status ==
             IF data.action = "add" THEN TRUE
             ELSE Removed(DeleteCount(conn.view.favorites, u, data.animeId))
           v == ToggleTables(conn.view, u, data)
       IN IF ~result_status /\ data.action = "remove"
          THEN [response |-> HTTPException(404), path |-> "favorite_not_found", db |-> db,
                conn |-> Idle(db)]
          ELSE [response |-> [Ok EXCEPT !.status = "success",
                                        !.count = FavoritesCount(v, u),
                                        !.favorites = FavoritesList(v, u)],
                path |-> "committed", db |-> v, conn |-> Idle(v)]

manage_favorites(u, data) ==
  LET result == manage_favorites_result(u, data)
  IN /\ UNCHANGED frame
     /\ before' = Stats(db, u)
     /\ request' = FavoriteRequest("manage_favorites", u, data)
     /\ UNCHANGED now
     /\ response' = result.response
     /\ path' = result.path
     /\ db' = result.db
     /\ conn' = result.conn

(***************************************************************************)
(* POST /achievements and POST /user/{user_id}/achievements/{id}           *)
(***************************************************************************)
\* cursor.lastrowid of an INSERT into an AUTOINCREMENT table nothing is deleted from
NextId(t) == Len(t) + 1

create_achievement(exp_reward) ==
  LET id == NextId(conn.view.achievements)
      v == [conn.view EXCEPT !.achievements = Append(@, [id |-> id, exp_reward |-> exp_reward])]
  IN /\ UNCHANGED frame
     /\ before' = Stats(db, GhostUser)
     /\ request' = [NoRequest EXCEPT !.op = "create_achievement", !.exp_reward = exp_reward]
     /\ db' = v
     /\ conn' = Idle(v)
     /\ response' = [Ok EXCEPT !.achievement_id = id]
     /\ path' = "committed"
     /\ UNCHANGED now

UnlockRows(t, u, id) == {i \in 1..Len(t) : t[i].user_id = u /\ t[i].achievement_id = id}

\* mutant: the table without UNIQUE(user_id, achievement_id)
UniqueViolation_None(t, u, id) == FALSE

\* UNIQUE(user_id, achievement_id) rejects the INSERT
UniqueViolation(t, u, id) == UnlockRows(t, u, id) # {}

\* SELECT exp_reward FROM achievements WHERE id = ?; fetchone(): the row's index, 0 for None
FetchAchievement(t, id) ==
  IF \E i \in 1..Len(t) : t[i].id = id THEN CHOOSE i \in 1..Len(t) : t[i].id = id ELSE 0

unlock_achievement(u, id) ==
  LET inserted == [conn.view EXCEPT !.user_achievements =
                      Append(@, [user_id |-> u, achievement_id |-> id])]
      found == FetchAchievement(conn.view.achievements, id)
      exp_reward == conn.view.achievements[found].exp_reward
      awarded == [inserted EXCEPT !.users = AwardExp(@, u, exp_reward)]
  IN /\ UNCHANGED frame
     /\ before' = Stats(db, u)
     /\ request' = [NoRequest EXCEPT !.op = "unlock_achievement", !.user_id = u,
                                     !.achievement_id = id]
     /\ UNCHANGED now
     /\ IF UniqueViolation(conn.view.user_achievements, u, id)
        THEN \* sqlite3.IntegrityError, answered 500 with no rollback
             /\ conn' = ExecuteFailed
             /\ response' = HTTPException(500)
             /\ path' = "integrity_error"
             /\ UNCHANGED db
        ELSE IF found = 0
        THEN \* fetchone() is None: TypeError leaves the handler, nothing is rolled back
             /\ conn' = Execute(inserted)
             /\ response' = HTTPException(500)
             /\ path' = "type_error"
             /\ UNCHANGED db
        ELSE /\ db' = awarded
             /\ conn' = Idle(awarded)
             /\ response' = [Ok EXCEPT !.exp_gained = exp_reward]
             /\ path' = "committed"

(***************************************************************************)
(* POST /user/{user_id}/watch-episode                                      *)
(***************************************************************************)
exp_per_episode == 100

\* mutant: a single "if" in place of the "while"
Rollover_Once(new_level, new_exp, next_level_exp) ==
  IF new_exp >= next_level_exp
  THEN [level |-> new_level + 1, exp |-> new_exp - next_level_exp,
        next_level_exp |-> 1000 * (new_level + 1)]
  ELSE [level |-> new_level, exp |-> new_exp, next_level_exp |-> next_level_exp]

\* while new_exp >= next_level_exp: new_level += 1; new_exp -= next_level_exp; ...
RECURSIVE Rollover(_, _, _)
Rollover(new_level, new_exp, next_level_exp) ==
  IF new_exp >= next_level_exp
  THEN Rollover(new_level + 1, new_exp - next_level_exp, 1000 * (new_level + 1))
  ELSE [level |-> new_level, exp |-> new_exp, next_level_exp |-> next_level_exp]

watch_episode(u) ==
  /\ UNCHANGED frame
  /\ before' = Stats(db, u)
  /\ request' = [NoRequest EXCEPT !.op = "watch_episode", !.user_id = u]
  /\ UNCHANGED now
  /\ IF ~UserExists(conn.view, u)
     THEN \* HTTPException(404) is caught by except Exception: rollback, 500
          /\ conn' = Idle(db)
          /\ response' = HTTPException(500)
          /\ path' = "user_not_found"
          /\ UNCHANGED db
     ELSE LET i == CHOOSE i \in UserRows(conn.view.users, u) : TRUE
              current_level == conn.view.users[i].level
              current_exp == conn.view.users[i].exp
              new == Rollover(current_level, current_exp + exp_per_episode, 1000 * current_level)
              v == [conn.view EXCEPT !.users[i].level = new.level, !.users[i].exp = new.exp]
          IN /\ db' = v
             /\ conn' = Idle(v)
             /\ response' = [Ok EXCEPT !.level = new.level, !.exp = new.exp]
             /\ path' = "committed"


(***************************************************************************)
(* POST /login                                                             *)
(***************************************************************************)
\* SELECT * FROM users WHERE email = ?; fetchone(): index of the row, 0 if none
UserByEmail(t, email) ==
  IF \E i \in 1..Len(t.users) : t.users[i].email = email
  THEN CHOOSE i \in 1..Len(t.users) : t.users[i].email = email
  ELSE 0

\* mutant: the password is not compared
PasswordMismatch_Never(password, stored_password) == FALSE

\* password != stored_password
PasswordMismatch(password, stored_password) == password # stored_password

\* SELECT role FROM roles WHERE user_id = ?; role_data[0] if role_data else "user"
RoleOf(t, u) ==
  IF UserRows(t.roles, u) = {} THEN "user"
  ELSE t.roles[CHOOSE i \in UserRows(t.roles, u) : TRUE].role

login(email, password) ==
  /\ UNCHANGED frame
  /\ before' = before
  /\ request' = [NoRequest EXCEPT !.op = "login", !.email = email, !.password = password]
  /\ LET user == UserByEmail(conn.view, email)
     IN IF user = 0
        THEN /\ response' = HTTPException(401)
             /\ path' = "user_not_found"
        ELSE IF PasswordMismatch(password, conn.view.users[user].password)
        THEN /\ response' = HTTPException(401)
             /\ path' = "wrong_password"
        ELSE /\ response' = [Ok EXCEPT !.user_id = conn.view.users[user].user_id,
                                       !.role = RoleOf(conn.view, conn.view.users[user].user_id)]
             /\ path' = "logged_in"
  /\ UNCHANGED <<db, conn, now>>

(***************************************************************************)
(* POST /update-profile/{user_id} and POST /avatar/{user_id}               *)
(***************************************************************************)
\* str.lower() on the e-mail addresses of the model
Lower(email) == IF email = "A@x.com" THEN "a@x.com" ELSE email

\* UNIQUE on users.email: another row holds the e-mail
EmailConflict(t, u, email) ==
  \E i \in 1..Len(t.users) : t.users[i].user_id # u /\ t.users[i].email = email

\* UPDATE users SET username = ?, email = ?, ... WHERE user_id = ?
SetEmail(users, u, email) ==
  [i \in 1..Len(users) |-> IF users[i].user_id = u THEN [users[i] EXCEPT !.email = email]
                           ELSE users[i]]

update_profile(u, email) ==
  /\ UNCHANGED frame
  /\ before' = Stats(db, u)
  /\ request' = [NoRequest EXCEPT !.op = "update_profile", !.user_id = u, !.email = email]
  /\ UNCHANGED now
  /\ IF UserExists(conn.view, u) /\ EmailConflict(conn.view, u, Lower(email))
     THEN \* IntegrityError, caught by `except Exception`; no rollback
          /\ conn' = ExecuteFailed
          /\ response' = HTTPException(500)
          /\ path' = "integrity_error"
          /\ UNCHANGED db
     ELSE \* an UPDATE of no row succeeds too
          LET v == [conn.view EXCEPT !.users = SetEmail(@, u, Lower(email))]
          IN /\ db' = v
             /\ conn' = Idle(v)
             /\ response' = Ok
             /\ path' = "committed"

\* the avatar_path column is not modelled: the UPDATE changes no modelled column
upload_avatar(u) ==
  /\ UNCHANGED frame
  /\ before' = Stats(db, u)
  /\ request' = [NoRequest EXCEPT !.op = "upload_avatar", !.user_id = u]
  /\ UNCHANGED now
  /\ IF ~UserExists(conn.view, u)
     THEN \* cursor.rowcount == 0: HTTPException(404), caught by `except Exception`;
          \* the UPDATE has begun a transaction that nothing ends
          /\ conn' = Execute(conn.view)
          /\ response' = HTTPException(500)
          /\ path' = "user_not_found"
          /\ UNCHANGED db
     ELSE /\ db' = conn.view
          /\ conn' = Idle(conn.view)
          /\ response' = Ok
          /\ path' = "committed"

(***************************************************************************)
(* POST /admin/setup, POST /admin/reset, PUT /admin/users/{user_id}/role   *)
(***************************************************************************)
SETUP_KEY == "your-secret-setup-key"

\* INSERT INTO roles (user_id, role) VALUES (?, ?) ON CONFLICT(user_id) DO UPDATE SET role = ?
UpsertRole(roles, u, role) ==
  IF UserRows(roles, u) = {} THEN Append(roles, [user_id |-> u, role |-> role])
  ELSE [i \in 1..Len(roles) |-> IF roles[i].user_id = u THEN [roles[i] EXCEPT !.role = role]
                                ELSE roles[i]]

\* INSERT INTO administrators (user_id) VALUES (?) ON CONFLICT(user_id) DO NOTHING
InsertAdministrator(administrators, u) ==
  IF UserRows(administrators, u) = {} THEN Append(administrators, [user_id |-> u])
  ELSE administrators

\* DELETE FROM administrators WHERE user_id = ?
RECURSIVE DeleteAdministrator(_, _)
DeleteAdministrator(administrators, u) ==
  IF administrators = << >> THEN << >>
  ELSE IF Head(administrators).user_id = u THEN DeleteAdministrator(Tail(administrators), u)
       ELSE <<Head(administrators)>> \o DeleteAdministrator(Tail(administrators), u)

\* mutant: a demotion leaves the administrators row
SyncAdministrators_KeepRow(administrators, u, role) ==
  IF role = "admin" THEN InsertAdministrator(administrators, u) ELSE administrators

\* the administrators table after a role change
SyncAdministrators(administrators, u, role) ==
  IF role = "admin" THEN InsertAdministrator(administrators, u)
  ELSE DeleteAdministrator(administrators, u)

setup_admin(setupKey, email) ==
  /\ UNCHANGED frame
  /\ before' = before
  /\ request' = [NoRequest EXCEPT !.op = "setup_admin", !.email = email,
                                  !.setupKey = setupKey]
  /\ UNCHANGED now
  /\ LET user == UserByEmail(conn.view, Lower(email))
     IN IF setupKey # SETUP_KEY
        THEN /\ response' = HTTPException(401)
             /\ path' = "invalid_key"
             /\ UNCHANGED <<db, conn>>
        ELSE IF user = 0
        THEN /\ response' = HTTPException(404)
             /\ path' = "user_not_found"
             /\ UNCHANGED <<db, conn>>
        ELSE IF Len(conn.view.administrators) > 0
        THEN /\ response' = HTTPException(400)
             /\ path' = "administrator_exists"
             /\ UNCHANGED <<db, conn>>
        ELSE LET user_id == conn.view.users[user].user_id
                 v == [conn.view EXCEPT
                         !.administrators = Append(@, [user_id |-> user_id]),
                         !.roles = UpsertRole(@, user_id, "admin")]
             IN /\ db' = v
                /\ conn' = Idle(v)
                /\ response' = [Ok EXCEPT !.status = "success"]
                /\ path' = "committed"

reset_admin(setupKey) ==
  /\ UNCHANGED frame
  /\ before' = before
  /\ request' = [NoRequest EXCEPT !.op = "reset_admin", !.setupKey = setupKey]
  /\ UNCHANGED now
  /\ IF setupKey # SETUP_KEY
     THEN /\ response' = HTTPException(401)
          /\ path' = "invalid_key"
          /\ UNCHANGED <<db, conn>>
     ELSE LET v == [conn.view EXCEPT
                      !.administrators = << >>,
                      !.roles = [i \in 1..Len(@) |-> [@[i] EXCEPT !.role = "user"]]]
          IN /\ db' = v
             /\ conn' = Idle(v)
             /\ response' = [Ok EXCEPT !.status = "success"]
             /\ path' = "committed"

update_admin_user_role(u, role) ==
  /\ UNCHANGED frame
  /\ before' = Stats(db, u)
  /\ request' = [NoRequest EXCEPT !.op = "update_admin_user_role", !.user_id = u,
                                  !.role = role]
  /\ UNCHANGED now
  /\ IF ~UserExists(conn.view, u)
     THEN /\ response' = HTTPException(404)
          /\ path' = "user_not_found"
          /\ UNCHANGED <<db, conn>>
     ELSE LET v == [conn.view EXCEPT
                      !.roles = UpsertRole(@, u, role),
                      !.administrators = SyncAdministrators(@, u, role)]
          IN /\ db' = v
             /\ conn' = Idle(v)
             /\ response' = [Ok EXCEPT !.status = "success"]
             /\ path' = "committed"

\* the bounds on exp and level: a step that takes a user above cap is not modelled
ExpWithin(cap) == \A i \in 1..Len(db.users) : db.users[i].exp <= cap
LevelWithin(cap) == \A i \in 1..Len(db.users) : db.users[i].level <= cap

\* the user ids a request may carry: the registered ones, and one that is not
Registered == {db.users[i].user_id : i \in 1..Len(db.users)}
Callers == {GhostUser} \cup Registered

\* request bodies of POST /watch-progress: for a registered user every status, count
\* and total on the first anime and one body on each other anime; two for the
\* unregistered user
WatchProgressBody ==
  [user_id : Registered, anime_id : {1}, title : {"T"}, image_url : {"img"},
   status : Status, episodes_watched : Episodes, total_episodes : {NoneInt} \cup Episodes]
  \cup
  [user_id : Registered, anime_id : AnimeIds \ {1}, title : {"T"}, image_url : {"img"},
   status : {WATCHING}, episodes_watched : {MaxEpisodes}, total_episodes : {NoneInt}]
  \cup
  [user_id : {GhostUser}, anime_id : {1}, title : {"T"}, image_url : {"img"},
   status : {WATCHING}, episodes_watched : {MaxEpisodes}, total_episodes : {NoneInt, MaxEpisodes}]

Next ==
  \/ Tick
  \/ \E u \in UserIds : register_user(u, "e1", "pw")
  \/ \E p \in WatchProgressBody : update_watch_progress(p) /\ ExpWithin(MaxExp)'
  \/ \E u \in Registered, s \in {WATCHING, COMPLETED}, e \in {NoneInt} \cup Episodes :
        update_watch_status(u, 1, s, e, "T", "img")
  \/ \E u \in Registered, a \in AnimeIds : delete_watch_status(u, a)
  \/ \E u \in Registered : update_user(u)

Spec == Init /\ [][Next]_vars

(***************************************************************************)
(* The leveling specification: the three places that award exp, on a       *)
(* catalog of two achievements created in a fixed order.                   *)
(***************************************************************************)
MaxLevelExp == 5200    \* the bound on exp under SpecLevel
MaxLevel == 4          \* the bound on level under SpecLevel
LevelRewards == <<50, 5000>>

\* the achievements in the catalog
Catalog == {conn.view.achievements[i].id : i \in 1..Len(conn.view.achievements)}

LevelProgressBody ==
  [user_id : Registered, anime_id : {1}, title : {"T"}, image_url : {"img"},
   status : {WATCHING, COMPLETED}, episodes_watched : {MaxEpisodes},
   total_episodes : {NoneInt}]

NextLevel ==
  \/ \E u \in UserIds : register_user(u, "e1", "pw")
  \/ /\ NextId(conn.view.achievements) <= Len(LevelRewards)
     /\ create_achievement(LevelRewards[NextId(conn.view.achievements)])
  \/ \E u \in Registered, id \in Catalog :
        unlock_achievement(u, id) /\ ExpWithin(MaxLevelExp)'
  \/ \E u \in Callers : watch_episode(u) /\ LevelWithin(MaxLevel)'
  \/ \E p \in LevelProgressBody : update_watch_progress(p) /\ ExpWithin(MaxLevelExp)'

SpecLevel == Init /\ [][NextLevel]_vars

(***************************************************************************)
(* The unlock specification: unlocks of achievements that exist and that   *)
(* do not, by users that exist and that do not, between requests that      *)
(* commit or roll back on the shared connection.                           *)
(***************************************************************************)
UnlockRewards == {100}

NextUnlock ==
  \/ \E u \in UserIds : register_user(u, "e1", "pw")
  \/ \E r \in UnlockRewards :
        Len(conn.view.achievements) < MaxAchievements /\ create_achievement(r)
  \/ \E u \in Callers, id \in 1..MaxAchievements :
        unlock_achievement(u, id) /\ ExpWithin(MaxExp)'
  \/ \E u \in Callers : watch_episode(u) /\ ExpWithin(MaxExp)'

SpecUnlock == Init /\ [][NextUnlock]_vars

(***************************************************************************)
(* The favorites specification: the two toggle handlers, between requests  *)
(* that leave a transaction open on the shared connection (update_user)    *)
(* and requests that end it (watch_episode of an unknown user).            *)
(***************************************************************************)
FavoriteBody ==
  [animeId : AnimeIds, action : {"add"}, title : {NoneStr, "T1", "T2"},
   image_url : {NoneStr, "img"}]
  \cup
  [animeId : AnimeIds, action : {"remove"}, title : {NoneStr}, image_url : {NoneStr}]

NextFav ==
  \/ Tick
  \/ \E u \in UserIds : register_user(u, "e1", "pw")
  \/ \E u \in Callers, data \in FavoriteBody : update_favorites(u, data)
  \/ \E u \in Callers, data \in FavoriteBody : manage_favorites(u, data)
  \/ \E u \in Registered : update_user(u)
  \/ watch_episode(GhostUser)

SpecFav == Init /\ [][NextFav]_vars

(***************************************************************************)
(* The reward specification: achievements created with any exp_reward the  *)
(* Achievement model accepts (an int, no lower bound), unlocked between    *)
(* the two other requests that award exp.                                  *)
(***************************************************************************)
AnyRewards == {-100, 100}

NextReward ==
  \/ \E u \in UserIds : register_user(u, "e1", "pw")
  \/ \E r \in AnyRewards :
        Len(conn.view.achievements) < MaxAchievements /\ create_achievement(r)
  \/ \E u \in Registered, id \in Catalog :
        unlock_achievement(u, id) /\ ExpWithin(MaxExp)'
  \/ \E u \in Registered : watch_episode(u) /\ ExpWithin(MaxExp)'
  \/ \E p \in LevelProgressBody : update_watch_progress(p) /\ ExpWithin(MaxExp)'

SpecReward == Init /\ [][NextReward]_vars

(***************************************************************************)
(* The title specification: POST /watch-progress with a title and an image *)
(* that are given, absent (None) or empty.                                 *)
(***************************************************************************)
TitleBody ==
  [user_id : Registered, anime_id : {1}, title : {NoneStr, "", "T"},
   image_url : {NoneStr, "", "img"}, status : {WATCHING},
   episodes_watched : Episodes, total_episodes : {NoneInt}]

NextTitle ==
  \/ \E u \in UserIds : register_user(u, "e1", "pw")
  \/ \E p \in TitleBody : update_watch_progress(p) /\ ExpWithin(MaxExp)'

SpecTitle == Init /\ [][NextTitle]_vars

(***************************************************************************)
(* The rows specification: the handlers that write watch_progress, recent  *)
(* and favorites, on the same (user, anime) pairs.                         *)
(***************************************************************************)
RowsProgressBody ==
  [user_id : Registered, anime_id : AnimeIds, title : {"T"}, image_url : {"img"},
   status : {WATCHING}, episodes_watched : {MaxEpisodes}, total_episodes : {NoneInt}]

RowsFavoriteBody ==
  [animeId : {1}, action : {"add", "remove"}, title : {"T"}, image_url : {"img"}]

NextRows ==
  \/ Tick
  \/ \E u \in UserIds : register_user(u, "e1", "pw")
  \/ \E p \in RowsProgressBody : update_watch_progress(p) /\ ExpWithin(MaxExp)'
  \/ \E u \in Registered : update_watch_status(u, 1, WATCHING, MaxEpisodes, "T", "img")
  \/ \E u \in Registered : delete_watch_status(u, 1)
  \/ \E u \in Callers, a \in AnimeIds : add_recent_anime(u, a, "R", "img")
  \/ \E u \in Registered, data \in RowsFavoriteBody : update_favorites(u, data)
  \/ \E u \in Registered, data \in RowsFavoriteBody : manage_favorites(u, data)

SpecRows == Init /\ [][NextRows]_vars

(***************************************************************************)
(* The account specification: registration, login, profile and avatar      *)
(* updates and the three administrator handlers.  A new user_id is the     *)
(* next unused one (uuid4 never repeats).                                  *)
(***************************************************************************)
MaxAccounts == 2       \* users that register under SpecAccount
Emails == {"a@x.com", "A@x.com"}
Passwords == {"pw", "pw2"}
SetupKeys == {SETUP_KEY, "wrong-key"}
Roles == {"user", "admin"}

NextAccount ==
  \/ \E e \in Emails, p \in Passwords :
        /\ Len(conn.view.users) < MaxAccounts
        /\ register_user(Len(conn.view.users) + 1, e, p)
  \/ \E e \in Emails, p \in Passwords : login(e, p)
  \/ \E u \in Callers, e \in Emails : update_profile(u, e)
  \/ \E u \in Callers : upload_avatar(u)
  \/ \E k \in SetupKeys, e \in Emails : setup_admin(k, e)
  \/ \E k \in SetupKeys : reset_admin(k)
  \/ \E u \in Callers, r \in Roles : update_admin_user_role(u, r)

SpecAccount == Init /\ [][NextAccount]_vars


(***************************************************************************)
(* The transaction specification: the requests that can fail on the shared *)
(* connection (a duplicate unlock or one of an achievement that does not   *)
(* exist, an avatar upload for an unknown user, POST /user/{user_id}, a    *)
(* profile update onto a taken e-mail), the favorites toggle that begins a *)
(* transaction explicitly, and requests that commit or roll back.          *)
(***************************************************************************)
TxnFavoriteBody ==
  [animeId : {1}, action : {"add"}, title : {"T1"}, image_url : {NoneStr}]
  \cup
  [animeId : {1}, action : {"remove"}, title : {NoneStr}, image_url : {NoneStr}]

NextTxn ==
  \/ \E e \in Emails :
        /\ Len(conn.view.users) < MaxAccounts
        /\ register_user(Len(conn.view.users) + 1, e, "pw")
  \/ Len(conn.view.achievements) < 1 /\ create_achievement(ProgressAward)
  \/ \E u \in Registered : unlock_achievement(u, 1) /\ ExpWithin(MaxExp)'
  \/ \E u \in Callers : upload_avatar(u)
  \/ \E u \in Registered : update_user(u)
  \/ \E u \in Registered, e \in Emails : update_profile(u, e)
  \/ \E u \in Registered, data \in TxnFavoriteBody : update_favorites(u, data)
  \/ watch_episode(GhostUser)

SpecTxn == Init /\ [][NextTxn]_vars

(***************************************************************************)
(* Claims about POST /watch-progress, checked under Spec.                  *)
(***************************************************************************)
\* what the request of this step reads before it writes
IsProgress(req) == req.op = "update_watch_progress"
StoredRow(t, req) == FetchOne(t.watch_progress, req.user_id, req.anime_id)
StoredStatus(t, req) ==
  IF StoredRow(t, req) = 0 THEN NoneStr ELSE t.watch_progress[StoredRow(t, req)].status
StoredEpisodes(t, req) ==
  IF StoredRow(t, req) = 0 THEN 0 ELSE t.watch_progress[StoredRow(t, req)].episodes_watched

\* the status the specification derives from a request body
DerivedStatus(req) ==
  IF req.total_episodes # NoneInt /\ req.total_episodes > 0
     /\ req.episodes_watched >= req.total_episodes
  THEN COMPLETED
  ELSE req.status

\* the two cascade conditions of the specification, on the state before the request
ConditionA(t, req) == StoredStatus(t, req) # COMPLETED /\ DerivedStatus(req) = COMPLETED
ConditionB(t, req) ==
  StoredEpisodes(t, req) # NoneInt /\ req.episodes_watched > StoredEpisodes(t, req)

\* the tables but for the watch_progress rows of the request's (user, anime)
Others(t, req) ==
  [t EXCEPT !.watch_progress = DeleteRows(@, req.user_id, req.anime_id)]

\* C1: after every POST /watch-progress by an existing user, the status stored for
\* (user, anime) and the status in the response are "completed" when total_episodes
\* is given, positive and reached, and the caller's status otherwise.
C1_StatusStoredAndReturned ==
  (IsProgress(request) /\ UserExists(db, request.user_id)) =>
     /\ response.status = DerivedStatus(request)
     /\ StoredStatus(db, request) = DerivedStatus(request)

C6_UnknownUserNotFound ==
  [][ (IsProgress(request') /\ ~UserExists(db, request'.user_id))
      => (response'.code = 404 /\ db' = db) ]_vars
(***************************************************************************)
(* Claims about leveling, checked under SpecLevel.                         *)
(***************************************************************************)
\* the exp_reward the catalog of tables t holds for achievement id
RewardOf(t, id) ==
  LET rows == {i \in 1..Len(t.achievements) : t.achievements[i].id = id}
  IN t.achievements[CHOOSE i \in rows : TRUE].exp_reward

\* the step awards exp by the single-step rule: a progress cascade or an unlock
IsSingleStepAward(req, p) ==
  \/ req.op = "update_watch_progress" /\ p = "cascade"
  \/ req.op = "unlock_achievement" /\ p = "committed"

\* the award of such a step
AwardOf(t, req) ==
  IF req.op = "unlock_achievement" THEN RewardOf(t, req.achievement_id) ELSE 100

\* C4: a user with level L and exp E who receives award A by the single-step rule
\* is stored with exp E + A and with level L + 1 if E + A >= L * 1000, else L.
C4_SingleStepLeveling ==
  [][ (IsSingleStepAward(request', path') /\ UserExists(db, request'.user_id))
      => LET L == Stats(db, request'.user_id).level
             E == Stats(db, request'.user_id).exp
             A == AwardOf(db, request')
         IN /\ Stats(db', request'.user_id).exp = E + A
            /\ Stats(db', request'.user_id).level = IF E + A >= L * 1000 THEN L + 1 ELSE L
            /\ Stats(db', request'.user_id).level <= L + 1 ]_vars

\* C4 witness: the progress cascade took level 1, exp 950 to level 2, exp 1050.
C4_Witness ==
  /\ request.op = "update_watch_progress" /\ path = "cascade"
  /\ before = [level |-> 1, exp |-> 950]
  /\ Stats(db, request.user_id) = [level |-> 2, exp |-> 1050]

\* the sum of the thresholds 1000 * L, ..., 1000 * (L + k - 1)
Thresholds(L, k) == 1000 * (k * L + (k * (k - 1)) \div 2)

\* C5: watch-episode of an existing user with level L >= 1 and exp E >= 0 stores
\* the level L + k and the exp E + 100 less the k thresholds crossed, k being the
\* number of rounds of the loop; afterwards 0 <= exp < 1000 * level.
C5_MultiStepRollover ==
  [][ (request'.op = "watch_episode" /\ UserExists(db, request'.user_id)
       /\ Stats(db, request'.user_id).level >= 1 /\ Stats(db, request'.user_id).exp >= 0)
      => LET L == Stats(db, request'.user_id).level
             E == Stats(db, request'.user_id).exp
             after == Stats(db', request'.user_id)
         IN /\ response'.code = 200
            /\ after.level >= L
            /\ after.exp = E + 100 - Thresholds(L, after.level - L)
            /\ 0 <= after.exp /\ after.exp < 1000 * after.level
            /\ (L = 1 /\ E = 950) => after = [level |-> 2, exp |-> 50] ]_vars

\* C5 witness: exp left two thresholds above the level by a single-step award
\* (level 2, exp 5000) rolls over twice in one request.
C5_Witness ==
  /\ request.op = "watch_episode" /\ response.code = 200
  /\ before = [level |-> 2, exp |-> 5000]
  /\ Stats(db, request.user_id) = [level |-> 4, exp |-> 100]

\* the example of the specification: level 1, exp 950 becomes level 2, exp 50
C5_Example ==
  /\ request.op = "watch_episode" /\ response.code = 200
  /\ before = [level |-> 1, exp |-> 950]
  /\ Stats(db, request.user_id) = [level |-> 2, exp |-> 50]

(***************************************************************************)
(* Claims about unlocking, checked under SpecUnlock.                       *)
(***************************************************************************)
\* C7: a request that fails persists nothing: the committed store changes only in
\* a step whose request succeeds, and user_achievements only in an unlock.
C7_AllOrNothing ==
  [][ /\ db' # db => response'.code = 200
      /\ db'.user_achievements # db.user_achievements
            => request'.op = "unlock_achievement" ]_vars

\* at most one user_achievements row per (user, achievement)
UniqueUnlocks(t) ==
  \A i, j \in 1..Len(t.user_achievements) :
     (t.user_achievements[i] = t.user_achievements[j]) => i = j

\* C8: an unlock of an achievement the user already holds fails and changes no
\* user's exp or level; no (user, achievement) pair ever has two rows.
C8_UnlockOnce ==
  [][ /\ (request'.op = "unlock_achievement"
          /\ UnlockRows(db.user_achievements, request'.user_id, request'.achievement_id) # {})
         => /\ response'.code >= 400
            /\ db'.users = db.users
            /\ conn'.view.users = conn.view.users
      /\ UniqueUnlocks(db') /\ UniqueUnlocks(conn'.view) ]_vars

\* C8 witness: the second unlock of an achievement that was unlocked, with its
\* reward, by the first.
C8_Witness ==
  /\ request.op = "unlock_achievement" /\ path = "integrity_error"
  /\ response.code = 500
  /\ UnlockRows(db.user_achievements, request.user_id, request.achievement_id) # {}
  /\ UserExists(db, request.user_id)
  /\ before.exp >= 100 /\ Stats(db, request.user_id) = before
(***************************************************************************)
(* Claims about the favorites toggles, checked under SpecFav.              *)
(***************************************************************************)
\* the step serves a favorites request (a tick of the clock serves none)
IsToggle(req) ==
  /\ now' = now
  /\ req.op = "update_favorites" \/ req.op = "manage_favorites"

\* at most one favorites row per (user, anime)
UniqueFavorites(t) ==
  \A i, j \in 1..Len(t.favorites) :
     (t.favorites[i].user_id = t.favorites[j].user_id
      /\ t.favorites[i].anime_id = t.favorites[j].anime_id) => i = j

\* C9: an add, by either handler, for a pair that is already favorited sets the
\* title and image of the pair's row and leaves exactly one row for the pair; no
\* pair ever has two rows.
C9_AddExistingUpdates ==
  [][ /\ (IsToggle(request') /\ request'.action = "add" /\ ~Falsy(request'.title)
          /\ RowsOf(db.favorites, request'.user_id, request'.anime_id) # {})
         => /\ Cardinality(RowsOf(db'.favorites, request'.user_id, request'.anime_id)) = 1
            /\ \A i \in RowsOf(db'.favorites, request'.user_id, request'.anime_id) :
                  /\ db'.favorites[i].title = request'.title
                  /\ db'.favorites[i].image_url = request'.image_url
      /\ UniqueFavorites(db') ]_vars

\* C10: a remove, by either handler, for a pair that has no favorites row answers
\* 404 and leaves the favorites table unchanged.
C10_RemoveMissingNotFound ==
  [][ (IsToggle(request') /\ request'.action = "remove"
       /\ RowsOf(db.favorites, request'.user_id, request'.anime_id) = {})
      => /\ response'.code = 404
         /\ db'.favorites = db.favorites ]_vars
\* C11: a toggle answered 200 returns every favorites row of the user once, with
\* count the number of those rows, the rows added later before the rows added
\* earlier; the anime of an add, being the most recently added, comes first.
C11_ListMostRecentFirst ==
  [][ (IsToggle(request') /\ response'.code = 200)
      => LET L == response'.favorites
             rows == UserRows(db'.favorites, request'.user_id)
         IN /\ response'.count = Cardinality(rows)
            /\ Len(L) = Cardinality(rows)
            /\ {L[k].id : k \in 1..Len(L)} = {db'.favorites[i].anime_id : i \in rows}
            /\ \A k, m \in 1..Len(L) : L[k].addedAt > L[m].addedAt => k < m
            /\ request'.action = "add" => L[1].id = request'.anime_id ]_vars
(***************************************************************************)
(* Claims about accounts and roles, checked under SpecAccount.             *)
(***************************************************************************)
\* the users rows of tables t that hold the e-mail and the password
Credentials(t, email, password) ==
  {i \in 1..Len(t.users) : t.users[i].email = email /\ t.users[i].password = password}

\* the role the roles table of t stores for user u ("user" right after registration)
StoredRole(t, u) ==
  LET rows == {i \in 1..Len(t.roles) : t.roles[i].user_id = u}
  IN IF rows = {} THEN "user" ELSE t.roles[CHOOSE i \in rows : TRUE].role

UniqueEmails(t) ==
  \A i, j \in 1..Len(t.users) : t.users[i].email = t.users[j].email => i = j

\* C13: a registration with an e-mail some user holds fails with 400 and adds no
\* users row and no roles row; no two users ever share an e-mail.
C13_EmailTaken ==
  [][ /\ (request'.op = "register_user"
          /\ \E i \in 1..Len(db.users) : db.users[i].email = request'.email)
         => /\ response'.code = 400
            /\ db'.users = db.users /\ db'.roles = db.roles
            /\ conn'.view.users = conn.view.users /\ conn'.view.roles = conn.view.roles
      /\ UniqueEmails(db') /\ UniqueEmails(conn'.view) ]_vars

\* C13 witness: a registration refused for its e-mail while another user could
\* still register.
C13_Witness ==
  /\ request.op = "register_user" /\ response.code = 400
  /\ Len(db.users) = 1 /\ db.users[1].email = request.email

\* the users with a row in administrators, and those whose roles row says 'admin'
Administrators(t) == {t.administrators[i].user_id : i \in 1..Len(t.administrators)}
AdminRoles(t) == {t.roles[i].user_id : i \in {k \in 1..Len(t.roles) : t.roles[k].role = "admin"}}

\* C20: a user has a row in administrators if and only if the user's roles row has
\* role 'admin'.
C20_AdministratorsMatchRoles ==
  /\ Administrators(db) = AdminRoles(db)
  /\ Administrators(conn.view) = AdminRoles(conn.view)

\* C20 witness: one user made administrator by PUT role while another user, with a
\* roles row, is none.
C20_Witness ==
  /\ request.op = "update_admin_user_role" /\ request.role = "admin"
  /\ response.code = 200
  /\ Administrators(db) = {request.user_id}
  /\ Len(db.roles) = 2
(***************************************************************************)
(* Claims about a repeated POST /watch-progress, checked under Spec.       *)
(***************************************************************************)
\* the step handles the same POST /watch-progress as the request before it, which
\* was answered 200
RepeatsProgress ==
  /\ now' = now
  /\ IsProgress(request') /\ request' = request
  /\ response.code = 200

C15_RepeatRefreshesRecent ==
  [][ (RepeatsProgress /\ RowsOf(db.recent, request'.user_id, request'.anime_id) # {})
      => \A i \in RowsOf(db'.recent, request'.user_id, request'.anime_id) :
            db'.recent[i].viewed_at = now' ]_vars
(***************************************************************************)
(* Claim about the range of level and exp, checked under SpecReward.       *)
(***************************************************************************)
\* C16: every user has level >= 1 and exp >= 0.
C16_LevelAndExpRange ==
  \A i \in 1..Len(db.users) : db.users[i].level >= 1 /\ db.users[i].exp >= 0
(***************************************************************************)
(* Claim about title and image, checked under SpecTitle.                   *)
(***************************************************************************)
\* a text value that is absent or empty
Blank(x) == x = NoneStr \/ x = ""

\* C17: a POST /watch-progress whose title (image_url) is absent or empty leaves the
\* non-empty title (image_url) stored for the pair as it was.
C17_KeepsTitleAndImage ==
  [][ (IsProgress(request') /\ StoredRow(db, request') # 0)
      => LET old == db.watch_progress[StoredRow(db, request')]
         IN /\ (Blank(request'.title) /\ ~Blank(old.title))
                 => /\ StoredRow(db', request') # 0
                    /\ db'.watch_progress[StoredRow(db', request')].title = old.title
            /\ (Blank(request'.image_url) /\ ~Blank(old.image_url))
                 => /\ StoredRow(db', request') # 0
                    /\ db'.watch_progress[StoredRow(db', request')].image_url
                         = old.image_url ]_vars
(***************************************************************************)
(* Claim about the rows per (user, anime), checked under SpecRows.         *)
(***************************************************************************)
\* table t holds at most one row per (user, anime)
OneRowPerPair(t) ==
  \A i, j \in 1..Len(t) :
     (t[i].user_id = t[j].user_id /\ t[i].anime_id = t[j].anime_id) => i = j

\* C18: watch_progress and recent each hold at most one row per (user, anime).
C18_OneRowPerPair ==
  /\ OneRowPerPair(db.watch_progress) /\ OneRowPerPair(db.recent)
  /\ OneRowPerPair(conn.view.watch_progress) /\ OneRowPerPair(conn.view.recent)

\* C18 witness: a repeat view refreshed rows that were there: the cascade of a
\* later second found the recent row POST /recent had inserted (that row's title)
\* and the watch_progress row of an earlier request.
C18_Witness ==
  /\ IsProgress(request) /\ path = "cascade" /\ now > 0
  /\ \E i \in RowsOf(db.recent, request.user_id, request.anime_id) :
        db.recent[i].title = "R" /\ db.recent[i].viewed_at = now
  /\ Len(db.watch_progress) = 2 /\ Len(db.recent) = 2
(***************************************************************************)
(* Claim about failed requests, checked under SpecTxn.                     *)
(***************************************************************************)
\* a favorites toggle that is valid: the user exists, and the body is an add with
\* a title or a remove of a favorite the user has
ValidToggle(t, req) ==
  /\ req.op = "update_favorites" \/ req.op = "manage_favorites"
  /\ \E i \in 1..Len(t.users) : t.users[i].user_id = req.user_id
  /\ \/ req.action = "add" /\ req.title # NoneStr /\ req.title # ""
     \/ req.action = "remove" /\ RowsOf(t.favorites, req.user_id, req.anime_id) # {}

\* C19: a request that ends in an error leaves no transaction open and no write
\* pending on the shared connection; a valid favorites toggle is therefore never
\* rejected; and rows of a failed request are never committed later.
C19_FailedRequestLeavesNothing ==
  [][ /\ response'.code >= 400 => (~conn'.in_transaction /\ conn'.view = db')
      /\ ValidToggle(db, request') => response'.code = 200
      /\ db' # db => response'.code = 200
      /\ db'.user_achievements # db.user_achievements
           => request'.op = "unlock_achievement" ]_vars
(***************************************************************************)
(* Claims about requests of unknown users and malformed bodies.            *)
(***************************************************************************)
\* C21: POST /user/{user_id}/watch-episode for a user_id that names no user is
\* answered 404 and changes no row.
C21_WatchEpisodeUnknownUser ==
  [][ (request'.op = "watch_episode" /\ now' = now /\ ~UserExists(db, request'.user_id))
        => (response'.code = 404 /\ db' = db) ]_vars

\* the achievements catalog of store t holds an achievement with this id
AchievementExists(t, id) == \E i \in 1..Len(t.achievements) : t.achievements[i].id = id

\* C22: an unlock whose user_id names no user, or whose achievement_id names no
\* achievement, is answered with an error, never success, and no
\* user_achievements row of that pair exists afterwards, committed or pending.
C22_UnlockUnknownIsNotFound ==
  [][ ( /\ request'.op = "unlock_achievement" /\ now' = now
        /\ \/ ~UserExists(db, request'.user_id)
           \/ ~AchievementExists(db, request'.achievement_id) )
        => ( /\ response'.code >= 400
             /\ UnlockRows(db'.user_achievements, request'.user_id,
                           request'.achievement_id) = {}
             /\ UnlockRows(conn'.view.user_achievements, request'.user_id,
                           request'.achievement_id) = {} ) ]_vars

(***************************************************************************)
(* The status specification: POST /watch-status with a title and an image  *)
(* that are given, absent (None) or empty, and DELETE /watch-status.       *)
(***************************************************************************)
StatusTitles == {NoneStr, "", "T"}
StatusImages == {NoneStr, "", "img"}

NextStatus ==
  \/ \E u \in UserIds : register_user(u, "e1", "pw")
  \/ \E u \in Registered, a \in AnimeIds, s \in {WATCHING, COMPLETED}, e \in Episodes,
        title \in StatusTitles, image_url \in StatusImages :
        update_watch_status(u, a, s, e, title, image_url)
  \/ \E u \in Registered, a \in AnimeIds : delete_watch_status(u, a)

SpecStatus == Init /\ [][NextStatus]_vars

\* C23: POST /watch-status whose title or image_url is missing or empty is
\* answered 400 and leaves watch_progress unchanged.
C23_WatchStatusValidation ==
  [][ ( /\ request'.op = "update_watch_status"
        /\ Falsy(request'.title) \/ Falsy(request'.image_url) )
        => (response'.code = 400 /\ db'.watch_progress = db.watch_progress) ]_vars

\* C24: every stored watch_progress row whose total_episodes is known and above
\* zero and whose episodes_watched has reached it has status 'completed'.
C24_ReachedTotalIsCompleted ==
  \A i \in 1..Len(db.watch_progress) :
     LET row == db.watch_progress[i]
     IN (/\ row.total_episodes # NoneInt /\ row.total_episodes > 0
         /\ row.episodes_watched # NoneInt
         /\ row.episodes_watched >= row.total_episodes)
           => row.status = COMPLETED

\* C29: a well-formed POST /watch-progress of an existing user succeeds, whatever
\* requests were handled before it.
C29_ProgressOfExistingUserSucceeds ==
  [][ (IsProgress(request') /\ now' = now /\ UserExists(db, request'.user_id))
        => response'.code = 200 ]_vars

(***************************************************************************)
(* The replay specification: one anime whose only awarded progress point   *)
(* is (completed, MaxEpisodes); the other requests lower the status or the *)
(* count, or delete the row, and POST /watch-progress reports the point    *)
(* again.                                                                  *)
(***************************************************************************)
ReplayBody ==
  [user_id : Registered, anime_id : {1}, title : {"T"}, image_url : {"img"},
   status : {COMPLETED}, episodes_watched : {MaxEpisodes}, total_episodes : {NoneInt}]
  \cup
  [user_id : Registered, anime_id : {1}, title : {"T"}, image_url : {"img"},
   status : {WATCHING}, episodes_watched : {0}, total_episodes : {NoneInt}]

NextReplay ==
  \/ Tick
  \/ \E u \in UserIds : register_user(u, "e1", "pw")
  \/ \E p \in ReplayBody : update_watch_progress(p) /\ ExpWithin(MaxExp)'
  \/ \E u \in Registered, s \in Status \ {COMPLETED}, e \in Episodes :
        update_watch_status(u, 1, s, e, "T", "img")
  \/ \E u \in Registered : delete_watch_status(u, 1)

SpecReplay == Init /\ [][NextReplay]_vars

\* C30: exp for a progress point of a (user, anime) pair is granted once: when the
\* only point that is ever reported with an award is (completed, MaxEpisodes) of
\* one anime, a user's exp never exceeds one award and the level stays 1, however
\* often the point is left (by a lower status, a lower count or DELETE) and
\* reported again.
C30_PointAwardedOnce ==
  \A i \in 1..Len(db.users) :
     db.users[i].exp <= ProgressAward /\ db.users[i].level = 1

(***************************************************************************)
(* Process start: the module is loaded again on the database file.  The    *)
(* old process's connections are gone, and with them what they had not     *)
(* committed.  GET /recent/{user_id}.                                      *)
(***************************************************************************)
\* init_db(): every statement is CREATE TABLE IF NOT EXISTS, and ALTER TABLE users
\* ADD COLUMN created_at when the column is missing; stored rows stay
init_db(t) == t

\* DROP TABLE IF EXISTS recent; CREATE TABLE IF NOT EXISTS recent (...); conn.commit()
DropRecent(t) == [t EXCEPT !.recent = << >>]

startup ==
  LET v == DropRecent(init_db(db))
  IN /\ db' = v
     /\ conn' = Idle(v)
     /\ request' = [NoRequest EXCEPT !.op = "startup"]
     /\ response' = NoResponse
     /\ path' = "startup"
     /\ UNCHANGED frame
     /\ before' = [level |-> 0, exp |-> 0]
     /\ UNCHANGED now

\* SELECT anime_id, title, image_url, viewed_at FROM recent WHERE user_id = ?
\* ORDER BY viewed_at DESC LIMIT 100, over the rows S of table t; rows of the same
\* second come in the order of the scan of the index on (user_id, anime_id)
RECURSIVE OrderByViewedAtDesc(_, _)
OrderByViewedAtDesc(t, S) ==
  IF S = {} THEN << >>
  ELSE LET i == CHOOSE i \in S : \A j \in S :
                   \/ t[i].viewed_at > t[j].viewed_at
                   \/ t[i].viewed_at = t[j].viewed_at /\ t[i].anime_id <= t[j].anime_id
       IN <<[anime_id |-> t[i].anime_id, title |-> t[i].title,
             image_url |-> t[i].image_url, viewed_at |-> t[i].viewed_at]>>
          \o OrderByViewedAtDesc(t, S \ {i})

get_recent_anime(u) ==
  /\ UNCHANGED frame
  /\ before' = Stats(db, u)
  /\ request' = [NoRequest EXCEPT !.op = "get_recent_anime", !.user_id = u]
  /\ response' = [Ok EXCEPT !.recent =
                    OrderByViewedAtDesc(conn.view.recent, UserRows(conn.view.recent, u))]
  /\ path' = "listed"
  /\ UNCHANGED <<db, conn, now>>

(***************************************************************************)
(* The restart specification: recent markers written by POST /recent and   *)
(* by the cascade of POST /watch-progress, read by GET /recent, across     *)
(* process starts.                                                         *)
(***************************************************************************)
RestartProgressBody ==
  [user_id : Registered, anime_id : {1}, title : {"T"}, image_url : {"img"},
   status : {WATCHING}, episodes_watched : {MaxEpisodes}, total_episodes : {NoneInt}]

NextRestart ==
  \/ Tick
  \/ \E u \in UserIds : register_user(u, "e1", "pw")
  \/ \E u \in Callers, a \in AnimeIds : add_recent_anime(u, a, "R", "img")
  \/ \E p \in RestartProgressBody : update_watch_progress(p) /\ ExpWithin(MaxExp)'
  \/ \E u \in Callers : get_recent_anime(u)
  \/ startup

SpecRestart == Init /\ [][NextRestart]_vars

\* the recent markers of user u that are committed in store t
Markers(t, u) == {t.recent[i].anime_id : i \in UserRows(t.recent, u)}

\* C25: a process start removes no stored row, and GET /recent/{user_id} returns
\* the user's committed markers, so markers committed before a restart are
\* returned after it.
C25_StartupKeepsRows ==
  [][ /\ (request'.op = "startup" /\ now' = now) => db' = db
      /\ (request'.op = "get_recent_anime" /\ now' = now)
           => {response'.recent[k].anime_id : k \in 1..Len(response'.recent)}
                = Markers(db, request'.user_id) ]_vars

(***************************************************************************)
(* Claim about the two favorites handlers, checked under SpecFav.          *)
(***************************************************************************)
\* the bodies the two handlers are compared on: add and remove, each anime, a
\* title that is absent, empty or given
AnyFavoriteBody ==
  [animeId : AnimeIds, action : {"add", "remove"}, title : {NoneStr, "", "T1"},
   image_url : {NoneStr, "img"}]

\* C26: POST /favorites/{user_id} and POST /favorites/{user_id}/manage are
\* equivalent: from the same store and connection state and for the same user and
\* body, the two handlers give the same response (code and body) and leave the
\* same tables and the same connection state.
C26_HandlersEquivalent ==
  \A u \in Callers, data \in AnyFavoriteBody :
     update_favorites_result(u, data) = manage_favorites_result(u, data)

\* C26 witness: a toggle has committed and the user's next requests meet the
\* cases: a remove of a favorite that is there (200), a remove of one that is not
\* (404), and an add with an empty title (400).
C26_Witness ==
  /\ request.op = "manage_favorites" /\ response.code = 200 /\ ~conn.in_transaction
  /\ \E u \in Registered :
        /\ manage_favorites_result(u, [animeId |-> 1, action |-> "remove",
              title |-> NoneStr, image_url |-> NoneStr]).response.code = 200
        /\ manage_favorites_result(u, [animeId |-> 2, action |-> "remove",
              title |-> NoneStr, image_url |-> NoneStr]).response.code = 404
        /\ manage_favorites_result(u, [animeId |-> 2, action |-> "add",
              title |-> "", image_url |-> "img"]).response.code = 400

(***************************************************************************)
(* The monotone specification: every handler that writes users.level or    *)
(* users.exp (the progress cascade, watch-episode, unlocks of a large and  *)
(* of a negative reward), with profile updates and the administrator       *)
(* handlers between them.                                                  *)
(***************************************************************************)
MonotoneRewards == <<5000, -100>>

NextMonotone ==
  \/ \E u \in UserIds : register_user(u, "a@x.com", "pw")
  \/ /\ NextId(conn.view.achievements) <= Len(MonotoneRewards)
     /\ create_achievement(MonotoneRewards[NextId(conn.view.achievements)])
  \/ \E u \in Registered, id \in Catalog :
        unlock_achievement(u, id) /\ ExpWithin(MaxLevelExp)'
  \/ \E u \in Registered : watch_episode(u) /\ LevelWithin(MaxLevel)'
  \/ \E p \in LevelProgressBody : update_watch_progress(p) /\ ExpWithin(MaxLevelExp)'
  \/ \E u \in Registered, e \in Emails : update_profile(u, e)
  \/ \E e \in Emails : setup_admin(SETUP_KEY, e)
  \/ \E u \in Registered, r \in Roles : update_admin_user_role(u, r)
  \/ reset_admin(SETUP_KEY)

SpecMonotone == Init /\ [][NextMonotone]_vars

\* C27: no request lowers a user's level: every user stored before a step is
\* stored after it with a level that is not lower.
C27_LevelNeverDecreases ==
  [][ \A i \in 1..Len(db.users) : \E j \in 1..Len(db'.users) :
         /\ db'.users[j].user_id = db.users[i].user_id
         /\ db'.users[j].level >= db.users[i].level ]_vars

\* C27 witness: a user above level 1 has unlocked the achievement of negative
\* reward and kept the level.
C27_Witness ==
  /\ request.op = "unlock_achievement" /\ response.code = 200 /\ response.exp_gained < 0
  /\ before.level >= 3
  /\ Stats(db, request.user_id).level = before.level
  /\ Stats(db, request.user_id).exp < (before.level - 1) * 1000

(***************************************************************************)
(* POST /user/{user_id}/watch-episode, one step per round of its loop.     *)
(* The handler is a coroutine without an await: once it has begun, no      *)
(* other request is handled until it returns.                              *)
(***************************************************************************)
\* mutant: a body whose assignments reach none of the loop's variables
RolloverStep_Stuck(f) == f

\* new_level += 1; new_exp -= next_level_exp; next_level_exp = 1000 * new_level
RolloverStep(f) ==
  [f EXCEPT !.new_level = f.new_level + 1,
            !.new_exp = f.new_exp - f.next_level_exp,
            !.next_level_exp = 1000 * (f.new_level + 1)]

\* from the SELECT to the first test of the loop condition
watch_episode_begin(u) ==
  /\ frame.pc = "idle"
  /\ before' = Stats(db, u)
  /\ request' = [NoRequest EXCEPT !.op = "watch_episode", !.user_id = u]
  /\ UNCHANGED <<db, now>>
  /\ IF ~UserExists(conn.view, u)
     THEN \* HTTPException(404) is caught by except Exception: rollback, 500
          /\ conn' = Idle(db)
          /\ response' = HTTPException(500)
          /\ path' = "user_not_found"
          /\ UNCHANGED frame
     ELSE LET i == CHOOSE i \in 1..Len(conn.view.users) : conn.view.users[i].user_id = u
              current_level == conn.view.users[i].level
              current_exp == conn.view.users[i].exp
          IN /\ frame' = [pc |-> "loop", user_id |-> u, new_level |-> current_level,
                          new_exp |-> current_exp + exp_per_episode,
                          next_level_exp |-> 1000 * current_level]
             /\ response' = NoResponse
             /\ path' = "rollover"
             /\ UNCHANGED conn

\* one round of the while loop
watch_episode_loop ==
  /\ frame.pc = "loop"
  /\ frame.new_exp >= frame.next_level_exp
  /\ frame' = RolloverStep(frame)
  /\ UNCHANGED <<db, conn, now, request, response, path, before>>

\* the loop condition is false: UPDATE users, conn.commit(), return
watch_episode_return ==
  /\ frame.pc = "loop"
  /\ frame.new_exp < frame.next_level_exp
  /\ LET i == CHOOSE i \in 1..Len(conn.view.users) :
                 conn.view.users[i].user_id = frame.user_id
         v == [conn.view EXCEPT !.users[i].level = frame.new_level,
                                !.users[i].exp = frame.new_exp]
     IN /\ db' = v
        /\ conn' = Idle(v)
        /\ response' = [Ok EXCEPT !.level = frame.new_level, !.exp = frame.new_exp]
  /\ path' = "committed"
  /\ frame' = NoFrame
  /\ UNCHANGED <<now, request, before>>

(***************************************************************************)
(* The loop specification: watch-episode step by step, on users whose exp  *)
(* the single-step awards (an unlock of 5000, the progress cascade) leave  *)
(* below or above the threshold of their level.  A handler that has begun  *)
(* keeps running: its steps are weakly fair.                               *)
(***************************************************************************)
LoopRewards == <<5000, 50>>

NextLoop ==
  \/ \E u \in UserIds : frame.pc = "idle" /\ register_user(u, "e1", "pw")
  \/ /\ frame.pc = "idle"
     /\ NextId(conn.view.achievements) <= Len(LoopRewards)
     /\ create_achievement(LoopRewards[NextId(conn.view.achievements)])
  \/ \E u \in Registered, id \in Catalog :
        frame.pc = "idle" /\ unlock_achievement(u, id) /\ ExpWithin(MaxLevelExp)'
  \/ \E p \in LevelProgressBody :
        frame.pc = "idle" /\ update_watch_progress(p) /\ ExpWithin(MaxLevelExp)'
  \/ \E u \in Callers :
        ExpWithin(MaxLevelExp) /\ LevelWithin(MaxLevel) /\ watch_episode_begin(u)
  \/ watch_episode_loop
  \/ watch_episode_return

SpecLoop ==
  /\ Init /\ [][NextLoop]_vars
  /\ WF_vars(watch_episode_loop) /\ WF_vars(watch_episode_return)

\* C28: the rollover loop of watch-episode terminates from every reachable user
\* state, and the request then commits and returns: a handler that has entered
\* the loop leads to the committed 200 response, whose level and exp are those of
\* the loop run to its end on the values the request read.
C28_RolloverTerminates ==
  /\ (frame.pc = "loop") ~>
        (frame.pc = "idle" /\ request.op = "watch_episode" /\ response.code = 200
           /\ ~conn.in_transaction)
  /\ [][ (frame.pc = "loop" /\ frame'.pc = "idle")
           => LET new == Rollover(before.level, before.exp + exp_per_episode,
                                  1000 * before.level)
              IN /\ Stats(db', request.user_id) = [level |-> new.level, exp |-> new.exp]
                 /\ response'.level = new.level /\ response'.exp = new.exp
                 /\ new.exp < 1000 * new.level ]_vars

\* C28 witness: a request that found exp above the threshold of the level (left
\* there by a single-step award) has run the loop more than once and returned.
C28_Witness ==
  /\ frame.pc = "idle" /\ request.op = "watch_episode" /\ response.code = 200
  /\ before.exp >= 1000 * before.level
  /\ response.level >= before.level + 2
====
